---- MODULE Spec2Model ----
(***************************************************************************)
(* Model of src/recording_utils.js: microphone capture sessions started by *)
(* captureAudio, the two recorder-node factories, the memoized audio       *)
(* context and the memoized worklet module load.                           *)
(*                                                                         *)
(* JavaScript runs on one event loop: a task (a platform event, a caller's *)
(* call) starts only when no microtask (a continuation of an await whose   *)
(* promise has settled) is pending.  Each session's position in            *)
(* captureAudio is kept in pc; the two positions that are pending          *)
(* microtasks block every task until they have run.                        *)
(***************************************************************************)
EXTENDS Integers, Sequences, FiniteSets, TLC

\* ----- bounds -----
NumSessions == 2      \* captureAudio calls in one page lifetime
NumTracks == 1        \* tracks of an acquired stream
MaxQuanta == 2        \* onaudioprocess events per fallback session
MaxMsgs == 2          \* messages the worklet processor posts per session
MaxStopCalls == 2     \* calls of the returned stop function per session

\* line 111: const channelCount = 1
channelCount == 1

Sessions == 1..NumSessions
Tracks == 1..NumTracks
Edges == {"sourceToRecorder", "recorderToSink"}

VARIABLES
  audioContext,                     \* [ctx, made]: the memoized context, contexts constructed
  recorderWorkletProcessorPromise,  \* [state, id]: the memoized module load
  addModuleCalls,                   \* audioWorklet.addModule calls started
  pc,                               \* position of each captureAudio call
  useScriptProcessorNode,           \* the variant each call selected
  rejection,                        \* [kind, load]: why a call rejected
  foundFailedLoad,                  \* line 36 found a load that had already failed
  streamAcquired,                   \* getUserMedia resolved with a stream
  trackStops,                       \* track.stop() calls per track
  nodeCreated,                      \* the recorder node exists, its handler is installed
  connections,                      \* edges of the graph that exist
  connectCalls,                     \* connect() calls made
  disconnects,                      \* disconnect() calls per edge
  stopped,                          \* the fallback factory's local flag
  isRecording,                      \* the worklet node's isRecording parameter
  finished,                         \* "tdz" before line 137 ran, then "false"/"true"
  teardownCount,                    \* executions of the clean-up body of onFinish
  cleanup,                          \* the steps onFinish has executed, in order
  stopReturned,                     \* captureAudio resolved with the stop function
  stopCalls,                        \* calls of the stop function by the caller
  handlerRuns,                      \* handler invocations by the platform
  onDataCalls,                      \* calls of the caller's onData
  onFinishCalls,                    \* calls of onFinish
  lastCalls,                        \* callbacks invoked by the latest handler run, in order
  blocksIn,                         \* blocks the platform handed to the node's handler, in order
  received,                         \* arguments of the caller's onData, in order
  port,                             \* messages posted by the processor, not yet delivered
  posted                            \* messages the processor has posted

sharedVars == <<audioContext, recorderWorkletProcessorPromise, addModuleCalls>>
callVars == <<pc, useScriptProcessorNode, rejection, foundFailedLoad, streamAcquired,
              stopReturned>>
nodeVars == <<nodeCreated, stopped, isRecording>>
wireVars == <<connections, connectCalls>>
teardownVars == <<finished, trackStops, disconnects, connections, teardownCount, cleanup>>
callbackVars == <<handlerRuns, onDataCalls, onFinishCalls, lastCalls, blocksIn, received>>
procVars == <<port, posted>>

vars == <<audioContext, recorderWorkletProcessorPromise, addModuleCalls,
          pc, useScriptProcessorNode, rejection, foundFailedLoad, streamAcquired, trackStops,
          nodeCreated, connections, connectCalls, disconnects, stopped,
          isRecording, finished, teardownCount, cleanup, stopReturned, stopCalls,
          handlerRuns, onDataCalls, onFinishCalls, lastCalls, blocksIn, received,
          port, posted>>

NoRejection == [kind |-> "none", load |-> 0]

Init ==
  /\ audioContext = [ctx |-> 0, made |-> 0]
  /\ recorderWorkletProcessorPromise = [state |-> "undefined", id |-> 0]
  /\ addModuleCalls = 0
  /\ pc = [s \in Sessions |-> "idle"]
  /\ useScriptProcessorNode = [s \in Sessions |-> FALSE]
  /\ rejection = [s \in Sessions |-> NoRejection]
  /\ foundFailedLoad = [s \in Sessions |-> FALSE]
  /\ streamAcquired = [s \in Sessions |-> FALSE]
  /\ trackStops = [s \in Sessions |-> [t \in Tracks |-> 0]]
  /\ nodeCreated = [s \in Sessions |-> FALSE]
  /\ connections = [s \in Sessions |-> {}]
  /\ connectCalls = [s \in Sessions |-> 0]
  /\ disconnects = [s \in Sessions |-> [e \in Edges |-> 0]]
  /\ stopped = [s \in Sessions |-> FALSE]
  /\ isRecording = [s \in Sessions |-> 0]
  /\ finished = [s \in Sessions |-> "tdz"]
  /\ teardownCount = [s \in Sessions |-> 0]
  /\ cleanup = [s \in Sessions |-> <<>>]
  /\ stopReturned = [s \in Sessions |-> FALSE]
  /\ stopCalls = [s \in Sessions |-> 0]
  /\ handlerRuns = [s \in Sessions |-> 0]
  /\ onDataCalls = [s \in Sessions |-> 0]
  /\ onFinishCalls = [s \in Sessions |-> 0]
  /\ lastCalls = [s \in Sessions |-> <<>>]
  /\ blocksIn = [s \in Sessions |-> <<>>]
  /\ received = [s \in Sessions |-> <<>>]
  /\ port = [s \in Sessions |-> <<>>]
  /\ posted = [s \in Sessions |-> 0]

\* ----- the event loop -----
MicrotaskPcsFactoryYields == {"moduleSettled"}

\* the continuations of the awaits at lines 38 and 129 run as microtasks
MicrotaskPcs == {"moduleSettled", "awaitFactory"}
NoMicrotask == \A s \in Sessions : pc[s] \notin MicrotaskPcs

\* ----- getAudioContext (lines 6-9) -----
getAudioContextFresh(a) == [ctx |-> a.made + 1, made |-> a.made + 1]

getAudioContext(a) ==
  IF a.ctx # 0 THEN a ELSE [ctx |-> a.made + 1, made |-> a.made + 1]

\* ----- the memoized module load (lines 35-37) -----
LoadModuleNoMemo ==
  /\ addModuleCalls' = addModuleCalls + 1
  /\ recorderWorkletProcessorPromise' =
       [state |-> "pending", id |-> addModuleCalls + 1]

LoadModuleRetryAfterFailure ==
  IF recorderWorkletProcessorPromise.state \in {"undefined", "rejected"}
  THEN /\ addModuleCalls' = addModuleCalls + 1
       /\ recorderWorkletProcessorPromise' =
            [state |-> "pending", id |-> addModuleCalls + 1]
  ELSE UNCHANGED <<recorderWorkletProcessorPromise, addModuleCalls>>

LoadModule ==
  IF recorderWorkletProcessorPromise.state = "undefined"
  THEN /\ addModuleCalls' = addModuleCalls + 1
       /\ recorderWorkletProcessorPromise' =
            [state |-> "pending", id |-> addModuleCalls + 1]
  ELSE UNCHANGED <<recorderWorkletProcessorPromise, addModuleCalls>>

\* ----- the factories' node construction -----
\* lines 81-87: createScriptProcessor, stopped = false, handler installed
CreateScriptProcessorNode(s) ==
  /\ nodeCreated' = [nodeCreated EXCEPT ![s] = TRUE]
  /\ stopped' = [stopped EXCEPT ![s] = FALSE]
  /\ UNCHANGED isRecording

\* lines 39-62: new AudioWorkletNode, handler installed, isRecording := 1
CreateWorkletNode(s) ==
  /\ nodeCreated' = [nodeCreated EXCEPT ![s] = TRUE]
  /\ isRecording' = [isRecording EXCEPT ![s] = 1]
  /\ UNCHANGED stopped

\* ----- teardown: onFinish (lines 138-151) -----
\* the order of lines 144-150
CleanupSteps ==
  <<"track.stop", "disconnect recorderToSink", "disconnect sourceToRecorder",
    "finished = true">>

OnFinishUnguarded(s) ==
  /\ trackStops' = [trackStops EXCEPT ![s] = [t \in Tracks |-> @[t] + 1]]
  /\ disconnects' = [disconnects EXCEPT ![s] = [e \in Edges |-> @[e] + 1]]
  /\ connections' = [connections EXCEPT ![s] = {}]
  /\ teardownCount' = [teardownCount EXCEPT ![s] = @ + 1]
  /\ cleanup' = [cleanup EXCEPT ![s] = @ \o CleanupSteps]
  /\ finished' = [finished EXCEPT ![s] = "true"]

OnFinishLeavesSource(s) ==
  IF finished[s] # "false"
  THEN UNCHANGED teardownVars
  ELSE /\ trackStops' = [trackStops EXCEPT ![s] = [t \in Tracks |-> @[t] + 1]]
       /\ disconnects' = [disconnects EXCEPT ![s] =
            [e \in Edges |-> IF e = "recorderToSink" THEN @[e] + 1 ELSE @[e]]]
       /\ connections' = [connections EXCEPT ![s] = @ \ {"recorderToSink"}]
       /\ teardownCount' = [teardownCount EXCEPT ![s] = @ + 1]
       /\ cleanup' = [cleanup EXCEPT ![s] =
            @ \o <<"track.stop", "disconnect recorderToSink", "finished = true">>]
       /\ finished' = [finished EXCEPT ![s] = "true"]

OnFinish(s) ==
  IF finished[s] = "tdz"
  THEN UNCHANGED teardownVars        \* ReferenceError: the handler aborts
  ELSE IF finished[s] = "true"
  THEN UNCHANGED teardownVars
  ELSE /\ trackStops' = [trackStops EXCEPT ![s] = [t \in Tracks |-> @[t] + 1]]
       /\ disconnects' = [disconnects EXCEPT ![s] = [e \in Edges |-> @[e] + 1]]
       /\ connections' = [connections EXCEPT ![s] =
            (@ \ {"recorderToSink"}) \ {"sourceToRecorder"}]
       /\ teardownCount' = [teardownCount EXCEPT ![s] = @ + 1]
       /\ cleanup' = [cleanup EXCEPT ![s] = @ \o CleanupSteps]
       /\ finished' = [finished EXCEPT ![s] = "true"]


\* ----- the stop controls the factories return -----
ScriptProcessorStopToggle(s) ==
  /\ stopped' = [stopped EXCEPT ![s] = ~@]
  /\ UNCHANGED isRecording
  /\ UNCHANGED teardownVars

ScriptProcessorStopShared(s) ==
  /\ stopped' = [r \in Sessions |-> TRUE]
  /\ UNCHANGED isRecording
  /\ UNCHANGED teardownVars

ScriptProcessorStopAndFinish(s) ==
  /\ stopped' = [stopped EXCEPT ![s] = TRUE]
  /\ UNCHANGED isRecording
  /\ OnFinish(s)

\* lines 99-101
ScriptProcessorStop(s) ==
  /\ stopped' = [stopped EXCEPT ![s] = TRUE]
  /\ UNCHANGED isRecording
  /\ UNCHANGED teardownVars

WorkletStopAndFinish(s) ==
  /\ isRecording' = [isRecording EXCEPT ![s] = 0]
  /\ UNCHANGED stopped
  /\ OnFinish(s)

\* lines 65-67: isRecordingParam.setValueAtTime(0, currentTime)
WorkletStop(s) ==
  /\ isRecording' = [isRecording EXCEPT ![s] = 0]
  /\ UNCHANGED stopped
  /\ UNCHANGED teardownVars

\* ----- sample blocks -----
\* channel i of block b: what inputBuffer.getChannelData(i) returns for the
\* b-th block
getChannelData(b, i) == <<b, i>>

\* lines 89-91: Array(channelCount).fill().map((_, i) => getChannelData(i))
AudioChannels(b) == [k \in 1..channelCount |-> getChannelData(b, k - 1)]

\* the block of the onaudioprocess event being handled
InputBuffer(s) == handlerRuns[s] + 1

OnDataAdapterReorders(s, audioChannels) ==
  /\ onDataCalls' = [onDataCalls EXCEPT ![s] = @ + 1]
  /\ received' = [received EXCEPT ![s] = <<Head(audioChannels)>> \o @]

\* line 131: onData: ([channelData]) => onData(channelData)
OnDataAdapter(s, audioChannels) ==
  /\ onDataCalls' = [onDataCalls EXCEPT ![s] = @ + 1]
  /\ received' = [received EXCEPT ![s] = Append(@, Head(audioChannels))]

\* ----- the handlers -----
OnAudioProcessFinishFirst(s) ==
  IF stopped[s]
  THEN /\ OnFinish(s)
       /\ onFinishCalls' = [onFinishCalls EXCEPT ![s] = @ + 1]
       /\ OnDataAdapter(s, AudioChannels(InputBuffer(s)))
       /\ lastCalls' = [lastCalls EXCEPT ![s] = <<"onFinish", "onData">>]
  ELSE /\ UNCHANGED teardownVars
       /\ UNCHANGED onFinishCalls
       /\ OnDataAdapter(s, AudioChannels(InputBuffer(s)))
       /\ lastCalls' = [lastCalls EXCEPT ![s] = <<"onData">>]

OnAudioProcessNeverFinishes(s) ==
  /\ OnDataAdapter(s, AudioChannels(InputBuffer(s)))
  /\ lastCalls' = [lastCalls EXCEPT ![s] = <<"onData">>]
  /\ UNCHANGED teardownVars
  /\ UNCHANGED onFinishCalls

OnAudioProcessAlwaysFinishes(s) ==
  /\ OnDataAdapter(s, AudioChannels(InputBuffer(s)))
  /\ OnFinish(s)
  /\ onFinishCalls' = [onFinishCalls EXCEPT ![s] = @ + 1]
  /\ lastCalls' = [lastCalls EXCEPT ![s] = <<"onData", "onFinish">>]

\* lines 88-96: onData(audioChannels); if (stopped) onFinish()
OnAudioProcessBody(s) ==
  /\ OnDataAdapter(s, AudioChannels(InputBuffer(s)))
  /\ IF stopped[s]
     THEN /\ OnFinish(s)
          /\ onFinishCalls' = [onFinishCalls EXCEPT ![s] = @ + 1]
          /\ lastCalls' = [lastCalls EXCEPT ![s] = <<"onData", "onFinish">>]
     ELSE /\ UNCHANGED teardownVars
          /\ UNCHANGED onFinishCalls
          /\ lastCalls' = [lastCalls EXCEPT ![s] = <<"onData">>]

OnMessageBodyFinishOnAny(s, e) ==
  /\ IF e.eventType = "data"
     THEN OnDataAdapter(s, e.audioChannels)
     ELSE UNCHANGED <<onDataCalls, received>>
  /\ OnFinish(s)
  /\ onFinishCalls' = [onFinishCalls EXCEPT ![s] = @ + 1]
  /\ lastCalls' = [lastCalls EXCEPT ![s] =
       (IF e.eventType = "data" THEN <<"onData">> ELSE <<>>) \o <<"onFinish">>]

\* lines 46-58: recorderNode.port.onmessage
OnMessageBody(s, e) ==
  /\ IF e.eventType = "data"
     THEN OnDataAdapter(s, e.audioChannels)
     ELSE UNCHANGED <<onDataCalls, received>>
  /\ IF e.eventType = "stop"
     THEN /\ OnFinish(s)
          /\ onFinishCalls' = [onFinishCalls EXCEPT ![s] = @ + 1]
     ELSE /\ UNCHANGED teardownVars
          /\ UNCHANGED onFinishCalls
  /\ lastCalls' = [lastCalls EXCEPT ![s] =
       (IF e.eventType = "data" THEN <<"onData">> ELSE <<>>)
         \o (IF e.eventType = "stop" THEN <<"onFinish">> ELSE <<>>)]

\* ----- captureAudio (lines 110-154) -----
\* line 110-112: the call, up to the await of getUserMedia.  Sessions are numbered
\* in the order of the calls.
CaptureAudio(s, useSP) ==
  /\ NoMicrotask
  /\ pc[s] = "idle"
  /\ \A r \in Sessions : r < s => pc[r] # "idle"
  /\ pc' = [pc EXCEPT ![s] = "awaitStream"]
  /\ useScriptProcessorNode' = [useScriptProcessorNode EXCEPT ![s] = useSP]
  /\ UNCHANGED <<sharedVars, rejection, foundFailedLoad, streamAcquired, stopReturned, nodeVars,
                 wireVars, teardownVars, stopCalls, callbackVars, procVars>>

GetUserMediaRejectSwallowed(s) ==
  /\ NoMicrotask
  /\ pc[s] = "awaitStream"
  /\ pc' = [pc EXCEPT ![s] = "awaitFactory"]
  /\ rejection' = [rejection EXCEPT ![s] = [kind |-> "getUserMedia", load |-> 0]]
  /\ audioContext' = getAudioContext(audioContext)
  /\ CreateScriptProcessorNode(s)
  /\ UNCHANGED <<recorderWorkletProcessorPromise, addModuleCalls, foundFailedLoad,
                 useScriptProcessorNode, streamAcquired, stopReturned,
                 wireVars, teardownVars, stopCalls, callbackVars, procVars>>

\* line 112: getUserMedia rejects; the await throws and captureAudio rejects
GetUserMediaReject(s) ==
  /\ NoMicrotask
  /\ pc[s] = "awaitStream"
  /\ pc' = [pc EXCEPT ![s] = "rejected"]
  /\ rejection' = [rejection EXCEPT ![s] = [kind |-> "getUserMedia", load |-> 0]]
  /\ UNCHANGED <<sharedVars, useScriptProcessorNode, foundFailedLoad, streamAcquired,
                 stopReturned, nodeVars, wireVars, teardownVars, stopCalls, callbackVars, procVars>>

\* lines 112-129: getUserMedia resolves; the continuation runs up to the next await.
\* Fallback: the factory (lines 80-102) runs to its return.  Worklet: the factory
\* runs to its await of the memoized load (lines 34-38).
GetUserMediaResolve(s) ==
  /\ NoMicrotask
  /\ pc[s] = "awaitStream"
  /\ streamAcquired' = [streamAcquired EXCEPT ![s] = TRUE]
  /\ audioContext' = getAudioContext(getAudioContext(audioContext))
  /\ IF useScriptProcessorNode[s]
     THEN /\ CreateScriptProcessorNode(s)
          /\ UNCHANGED <<recorderWorkletProcessorPromise, addModuleCalls, foundFailedLoad>>
          /\ pc' = [pc EXCEPT ![s] = "awaitFactory"]
     ELSE /\ LoadModule
          /\ foundFailedLoad' = [foundFailedLoad EXCEPT ![s] =
               recorderWorkletProcessorPromise.state = "rejected"]
          /\ UNCHANGED nodeVars
          /\ pc' = [pc EXCEPT ![s] =
               IF recorderWorkletProcessorPromise'.state = "pending"
               THEN "awaitModule" ELSE "moduleSettled"]
  /\ UNCHANGED <<useScriptProcessorNode, rejection, stopReturned, wireVars,
                 teardownVars, stopCalls, callbackVars, procVars>>

\* the platform settles addModule's promise; every call awaiting it gets its
\* continuation queued
AddModuleSettle(outcome) ==
  /\ NoMicrotask
  /\ recorderWorkletProcessorPromise.state = "pending"
  /\ recorderWorkletProcessorPromise' =
       [recorderWorkletProcessorPromise EXCEPT !.state = outcome]
  /\ pc' = [s \in Sessions |->
       IF pc[s] = "awaitModule" THEN "moduleSettled" ELSE pc[s]]
  /\ UNCHANGED <<audioContext, addModuleCalls, useScriptProcessorNode, rejection, foundFailedLoad,
                 streamAcquired, stopReturned, nodeVars, wireVars, teardownVars,
                 stopCalls, callbackVars, procVars>>

AddModuleResolve == AddModuleSettle("fulfilled")
AddModuleReject == AddModuleSettle("rejected")

AfterModuleIgnoresFailure(s) ==
  /\ pc[s] = "moduleSettled"
  /\ CreateWorkletNode(s)
  /\ pc' = [pc EXCEPT ![s] = "awaitFactory"]
  /\ UNCHANGED rejection
  /\ UNCHANGED <<sharedVars, useScriptProcessorNode, foundFailedLoad, streamAcquired,
                 stopReturned, wireVars, teardownVars, stopCalls, callbackVars, procVars>>

\* lines 38-68 (a microtask): the await of the load returns or throws.  On a
\* throw the factory rejects and so does captureAudio's await at line 129.
AfterModule(s) ==
  /\ pc[s] = "moduleSettled"
  /\ IF recorderWorkletProcessorPromise.state = "fulfilled"
     THEN /\ CreateWorkletNode(s)
          /\ pc' = [pc EXCEPT ![s] = "awaitFactory"]
          /\ UNCHANGED rejection
     ELSE /\ UNCHANGED nodeVars
          /\ pc' = [pc EXCEPT ![s] = "rejected"]
          /\ rejection' = [rejection EXCEPT ![s] =
               [kind |-> "addModule", load |-> recorderWorkletProcessorPromise.id]]
  /\ UNCHANGED <<sharedVars, useScriptProcessorNode, foundFailedLoad, streamAcquired,
                 stopReturned, wireVars, teardownVars, stopCalls, callbackVars, procVars>>

\* lines 129-153 (a microtask): the factory's result arrives; wire the graph,
\* initialise finished, return stop
AfterFactory(s) ==
  /\ pc[s] = "awaitFactory"
  /\ connections' = [connections EXCEPT ![s] = Edges]
  /\ connectCalls' = [connectCalls EXCEPT ![s] = @ + 2]
  /\ finished' = [finished EXCEPT ![s] = "false"]
  /\ stopReturned' = [stopReturned EXCEPT ![s] = TRUE]
  /\ pc' = [pc EXCEPT ![s] = "returned"]
  /\ UNCHANGED <<sharedVars, useScriptProcessorNode, rejection, foundFailedLoad,
                 streamAcquired, nodeVars, trackStops, disconnects, teardownCount, cleanup,
                 stopCalls,
                 callbackVars, procVars>>

\* ----- the caller and the platform -----
\* the caller calls the stop function it was given
StopCall(s) ==
  /\ NoMicrotask
  /\ stopReturned[s]
  /\ stopCalls[s] < MaxStopCalls
  /\ stopCalls' = [stopCalls EXCEPT ![s] = @ + 1]
  /\ IF useScriptProcessorNode[s]
     THEN ScriptProcessorStop(s)
     ELSE WorkletStop(s)
  /\ UNCHANGED <<sharedVars, callVars, nodeCreated, connectCalls, callbackVars,
                 procVars>>

\* the platform fires onaudioprocess on a fallback session's node; events
\* queued before the node was disconnected may still arrive after teardown
OnAudioProcess(s) ==
  /\ NoMicrotask
  /\ useScriptProcessorNode[s]
  /\ nodeCreated[s]
  /\ handlerRuns[s] < MaxQuanta
  /\ handlerRuns' = [handlerRuns EXCEPT ![s] = @ + 1]
  /\ blocksIn' = [blocksIn EXCEPT ![s] = Append(@, InputBuffer(s))]
  /\ OnAudioProcessBody(s)
  /\ UNCHANGED <<sharedVars, callVars, nodeVars, connectCalls, stopCalls, procVars>>

\* the messages of the worklet processor
DataMessage(b) == [eventType |-> "data", audioChannels |-> AudioChannels(b)]
StopMessage == [eventType |-> "stop", audioChannels |-> <<>>]

\* the worklet processor (recorderWorkletProcessor.js, on the audio thread) runs
\* one quantum: it posts a block while isRecording is active, and 'stop' once it
\* observes the control inactive
ProcessorQuantum(s) ==
  /\ ~useScriptProcessorNode[s]
  /\ nodeCreated[s]
  /\ posted[s] < MaxMsgs
  /\ posted' = [posted EXCEPT ![s] = @ + 1]
  /\ port' = [port EXCEPT ![s] =
       Append(@, IF isRecording[s] = 1 THEN DataMessage(posted[s] + 1) ELSE StopMessage)]
  /\ UNCHANGED <<sharedVars, callVars, nodeVars, wireVars, teardownVars,
                 stopCalls, callbackVars>>

\* the platform delivers the oldest posted message to port.onmessage
OnMessage(s) ==
  /\ NoMicrotask
  /\ ~useScriptProcessorNode[s]
  /\ nodeCreated[s]
  /\ port[s] # <<>>
  /\ port' = [port EXCEPT ![s] = Tail(@)]
  /\ handlerRuns' = [handlerRuns EXCEPT ![s] = @ + 1]
  /\ blocksIn' = [blocksIn EXCEPT ![s] =
       IF Head(port[s]).eventType = "data"
       THEN Append(@, Head(port[s]).audioChannels[1][1]) ELSE @]
  /\ OnMessageBody(s, Head(port[s]))
  /\ UNCHANGED <<sharedVars, callVars, nodeVars, connectCalls, stopCalls, posted>>

Next ==
  \/ \E s \in Sessions, useSP \in BOOLEAN : CaptureAudio(s, useSP)
  \/ \E s \in Sessions : GetUserMediaReject(s)
  \/ \E s \in Sessions : GetUserMediaResolve(s)
  \/ AddModuleResolve
  \/ AddModuleReject
  \/ \E s \in Sessions : AfterModule(s)
  \/ \E s \in Sessions : AfterFactory(s)
  \/ \E s \in Sessions : StopCall(s)
  \/ \E s \in Sessions : OnAudioProcess(s)
  \/ \E s \in Sessions : ProcessorQuantum(s)
  \/ \E s \in Sessions : OnMessage(s)

Spec == Init /\ [][Next]_vars

\* the event loop runs every pending microtask, and the platform keeps firing
\* onaudioprocess on a fallback node while it may
FairSpec ==
  /\ Spec
  /\ \A s \in Sessions : WF_vars(AfterModule(s))
  /\ \A s \in Sessions : WF_vars(AfterFactory(s))
  /\ \A s \in Sessions : WF_vars(OnAudioProcess(s))

\* ----- properties -----

\* C1: in every session the clean-up body of onFinish (stop every track,
\* disconnect recorder from sink, disconnect source from recorder) executes at
\* most once, whatever the interleaving of stop() calls, quanta and messages.
C1_TeardownAtMostOnce ==
  \A s \in Sessions :
    /\ teardownCount[s] <= 1
    /\ \A t \in Tracks : trackStops[s][t] <= 1
    /\ \A e \in Edges : disconnects[s][e] <= 1

\* a fallback and a worklet session in each of which onFinish was invoked more
\* than once after a stop() call
C1_Witness ==
  \E s, r \in Sessions :
    /\ useScriptProcessorNode[s] /\ ~useScriptProcessorNode[r]
    /\ stopCalls[s] >= 1 /\ onFinishCalls[s] >= 2 /\ teardownCount[s] = 1
    /\ stopCalls[r] >= 1 /\ onFinishCalls[r] >= 2 /\ teardownCount[r] = 1

\* C2: in a fallback session, once stop() was called and a further quantum can
\* occur, teardown eventually executes; and after any quantum that followed
\* stop() teardown has executed exactly once, however many quanta follow.
C2_StopThenQuantaTearDownOnce ==
  \A s \in Sessions :
    /\ [](useScriptProcessorNode[s] /\ onFinishCalls[s] >= 1
            => teardownCount[s] = 1 /\ finished[s] = "true")
    /\ (useScriptProcessorNode[s] /\ stopped[s] /\ handlerRuns[s] < MaxQuanta)
         ~> (teardownCount[s] = 1)

\* a fallback session with two quanta after stop() and one teardown
C2_Witness ==
  \E s \in Sessions :
    /\ useScriptProcessorNode[s] /\ stopped[s]
    /\ onFinishCalls[s] = 2 /\ teardownCount[s] = 1

\* C3: the stop function is idempotent for both variants: a call after the
\* first changes nothing of the session but the count of calls, and a session
\* stopped twice has its tracks stopped and each edge disconnected at most once.
C3_StopIdempotent ==
  [][\A s \in Sessions :
       /\ (stopCalls'[s] # stopCalls[s] /\ stopCalls[s] >= 1) =>
            /\ stopped'[s] = stopped[s]
            /\ isRecording'[s] = isRecording[s]
            /\ finished'[s] = finished[s]
            /\ teardownCount'[s] = teardownCount[s]
            /\ trackStops'[s] = trackStops[s]
            /\ disconnects'[s] = disconnects[s]
            /\ connections'[s] = connections[s]
            /\ port'[s] = port[s]
       /\ stopCalls'[s] >= 1 =>
            IF useScriptProcessorNode'[s] THEN stopped'[s] ELSE isRecording'[s] = 0
       /\ stopCalls'[s] >= 2 =>
            /\ \A t \in Tracks : trackStops'[s][t] <= 1
            /\ \A e \in Edges : disconnects'[s][e] <= 1]_vars

\* a fallback and a worklet session, each stopped twice and torn down once
C3_Witness ==
  \E s, r \in Sessions :
    /\ useScriptProcessorNode[s] /\ ~useScriptProcessorNode[r]
    /\ stopCalls[s] = 2 /\ \A t \in Tracks : trackStops[s][t] = 1
    /\ stopCalls[r] = 2 /\ \A t \in Tracks : trackStops[r][t] = 1
    /\ \A e \in Edges : disconnects[s][e] = 1 /\ disconnects[r][e] = 1

\* C4: when getUserMedia fails captureAudio rejects and builds no graph: no
\* recorder node, no connect call, no stop function for the caller.
C4_AcquisitionFailureBuildsNothing ==
  \A s \in Sessions :
    (pc[s] # "idle" /\ pc[s] # "awaitStream" /\ ~streamAcquired[s]) =>
      /\ pc[s] = "rejected"
      /\ rejection[s].kind = "getUserMedia"
      /\ ~nodeCreated[s]
      /\ connectCalls[s] = 0
      /\ connections[s] = {}
      /\ ~stopReturned[s]

\* a call rejected by getUserMedia while another session is recording
C4_Witness ==
  \E s, r \in Sessions :
    /\ pc[s] = "rejected" /\ rejection[s].kind = "getUserMedia"
    /\ pc[r] = "returned" /\ onDataCalls[r] >= 1

\* C5: over all worklet-variant calls, overlapping or one after another,
\* addModule is started exactly once, and every call that waits waits on that
\* one load.
C5_OneModuleLoad ==
  /\ addModuleCalls <= 1
  /\ recorderWorkletProcessorPromise.id = addModuleCalls
  /\ \A s \in Sessions :
       /\ (streamAcquired[s] /\ ~useScriptProcessorNode[s]) => addModuleCalls = 1
       /\ pc[s] = "awaitModule" => recorderWorkletProcessorPromise.state = "pending"

\* two calls overlap: both wait on the one load that is pending
C5_Witness ==
  \E s, r \in Sessions :
    /\ s # r
    /\ pc[s] = "awaitModule" /\ pc[r] = "awaitModule"
    /\ recorderWorkletProcessorPromise = [state |-> "pending", id |-> 1]
    /\ addModuleCalls = 1

\* C6: in a fallback session every quantum delivers its block to onData first;
\* onFinish is invoked only inside a quantum, after that delivery, and it is
\* invoked in the first (and every) quantum that follows stop().
C6_DataBeforeFinish ==
  [][\A s \in Sessions : useScriptProcessorNode[s] =>
       /\ handlerRuns'[s] # handlerRuns[s] =>
            /\ onDataCalls'[s] = onDataCalls[s] + 1
            /\ lastCalls'[s] # <<>> /\ Head(lastCalls'[s]) = "onData"
            /\ stopped[s] <=> onFinishCalls'[s] = onFinishCalls[s] + 1
       /\ onFinishCalls'[s] # onFinishCalls[s] =>
            /\ handlerRuns'[s] # handlerRuns[s]
            /\ lastCalls'[s] = <<"onData", "onFinish">>]_vars

\* the first quantum after stop() has run: it delivered a block, then finished
C6_Witness ==
  \E s \in Sessions :
    /\ useScriptProcessorNode[s] /\ stopCalls[s] >= 1
    /\ onFinishCalls[s] = 1 /\ onDataCalls[s] >= 2
    /\ lastCalls[s] = <<"onData", "onFinish">>

\* C7: in a worklet session stop() only sets isRecording to 0 and runs no
\* onFinish; teardown executes only in the delivery of a 'stop' message.
C7_WorkletStopOnlySignals ==
  [][\A s \in Sessions : (~useScriptProcessorNode[s] /\ nodeCreated[s]) =>
       /\ stopCalls'[s] # stopCalls[s] =>
            /\ isRecording'[s] = 0
            /\ onFinishCalls'[s] = onFinishCalls[s]
            /\ teardownCount'[s] = teardownCount[s]
            /\ finished'[s] = finished[s]
            /\ trackStops'[s] = trackStops[s]
            /\ connections'[s] = connections[s]
       /\ teardownCount'[s] # teardownCount[s] =>
            /\ handlerRuns'[s] = handlerRuns[s] + 1
            /\ port[s] # <<>> /\ Head(port[s]).eventType = "stop"
            /\ port'[s] = Tail(port[s])]_vars

\* stop() has returned in a worklet session and nothing is torn down yet
C7_Witness ==
  \E s \in Sessions :
    /\ ~useScriptProcessorNode[s] /\ stopCalls[s] >= 1
    /\ isRecording[s] = 0 /\ teardownCount[s] = 0 /\ finished[s] = "false"
    /\ connections[s] = Edges

\* C8: every acquired stream has its tracks stopped exactly once: never more
\* than once, and once when the session has ended after acquisition, also when
\* it ended because the recorder node could not be created.
C8_TracksStoppedExactlyOnce ==
  \A s \in Sessions : \A t \in Tracks :
    /\ trackStops[s][t] <= 1
    /\ (streamAcquired[s] /\ pc[s] = "rejected") => trackStops[s][t] = 1

\* C9: when the module load fails the worklet factory rejects without creating
\* a node, and captureAudio rejects: no connect call, no stop function.
C9_LoadFailureRejects ==
  \A s \in Sessions :
    /\ rejection[s].kind = "addModule" =>
         /\ pc[s] = "rejected"
         /\ recorderWorkletProcessorPromise.state = "rejected"
    /\ (recorderWorkletProcessorPromise.state = "rejected"
          /\ streamAcquired[s] /\ ~useScriptProcessorNode[s]) =>
         /\ pc[s] \in {"moduleSettled", "rejected"}
         /\ pc[s] = "rejected" => rejection[s].kind = "addModule"
         /\ ~nodeCreated[s]
         /\ connectCalls[s] = 0
         /\ connections[s] = {}
         /\ ~stopReturned[s]

\* a call that acquired its stream and was rejected by the failed load
C9_Witness ==
  \E s \in Sessions :
    /\ pc[s] = "rejected" /\ rejection[s].kind = "addModule"
    /\ streamAcquired[s] /\ ~nodeCreated[s]

\* C10: a failed load stays memoized: no later step clears it or starts another
\* addModule, and every worklet-variant call that finds it rejects with that
\* same failure.
C10_FailedLoadStaysCached ==
  [][/\ recorderWorkletProcessorPromise.state = "rejected" =>
          /\ recorderWorkletProcessorPromise' = recorderWorkletProcessorPromise
          /\ addModuleCalls' = addModuleCalls
     /\ \A s \in Sessions :
          /\ foundFailedLoad'[s] =>
               /\ pc'[s] \in {"moduleSettled", "rejected"}
               /\ addModuleCalls' = 1
          /\ rejection'[s].kind = "addModule" =>
               /\ rejection'[s].load = 1
               /\ recorderWorkletProcessorPromise'.id = 1]_vars

\* a call made after the load had failed, rejected with the cached failure
C10_Witness ==
  \E s, r \in Sessions :
    /\ ~foundFailedLoad[r] /\ rejection[r].kind = "addModule"
    /\ foundFailedLoad[s] /\ pc[s] = "rejected"
    /\ rejection[s] = rejection[r]

\* C11: every block the platform hands to a session's handler reaches the
\* caller's onData exactly once, as channel 0 of that block, in the order of
\* arrival.
C11_EveryBlockOnceInOrder ==
  \A s \in Sessions :
    /\ onDataCalls[s] = Len(blocksIn[s])
    /\ Len(received[s]) = Len(blocksIn[s])
    /\ \A k \in 1..Len(blocksIn[s]) :
         received[s][k] = getChannelData(blocksIn[s][k], 0)

\* a fallback and a worklet session that have each delivered two blocks
C11_Witness ==
  \E s, r \in Sessions :
    /\ useScriptProcessorNode[s] /\ Len(blocksIn[s]) = 2 /\ Len(received[s]) = 2
    /\ ~useScriptProcessorNode[r] /\ Len(blocksIn[r]) = 2 /\ Len(received[r]) = 2

\* C12: whatever the number of sessions and whichever factory they use, at most
\* one audio context is constructed and every getAudioContext call returns it.
C12_OneAudioContext ==
  /\ audioContext.made <= 1
  /\ audioContext.ctx = audioContext.made
  /\ (\E s \in Sessions : streamAcquired[s]) => audioContext.ctx = 1

\* a fallback and a worklet session have both obtained the context
C12_Witness ==
  \E s, r \in Sessions :
    /\ useScriptProcessorNode[s] /\ nodeCreated[s]
    /\ ~useScriptProcessorNode[r] /\ nodeCreated[r]
    /\ audioContext.made = 1

Phase(s) ==
  IF finished[s] = "true" THEN "Finished"
  ELSE IF pc[s] = "idle" THEN "Idle"
  ELSE IF pc[s] = "rejected" THEN "Failed"
  ELSE IF pc[s] # "returned" THEN "Acquiring"
  ELSE IF stopCalls[s] = 0 THEN "Active"
  ELSE "Stopping"

PhaseOrder ==
  { <<"Idle", "Acquiring">>, <<"Acquiring", "Active">>, <<"Acquiring", "Failed">>,
    <<"Active", "Stopping">>, <<"Stopping", "Finished">> }

C15_NoQuantumNoFinish ==
  [][\A s \in Sessions :
       (/\ useScriptProcessorNode[s]
        /\ \/ onFinishCalls'[s] # onFinishCalls[s]
           \/ teardownCount'[s] # teardownCount[s]
           \/ finished'[s] # finished[s] /\ finished'[s] = "true"
           \/ trackStops'[s] # trackStops[s]
           \/ cleanup'[s] # cleanup[s]
           \/ connections'[s] # connections[s] /\ connections[s] = Edges)
       => /\ handlerRuns'[s] = handlerRuns[s] + 1
          /\ stopped[s]
          /\ stopCalls'[s] = stopCalls[s]]_vars

\* stop() was called twice after the last quantum: nothing is torn down
C15_Witness ==
  \E s \in Sessions :
    /\ useScriptProcessorNode[s] /\ stopped[s] /\ stopCalls[s] = 2
    /\ handlerRuns[s] >= 1 /\ onFinishCalls[s] = 0
    /\ teardownCount[s] = 0 /\ finished[s] = "false" /\ connections[s] = Edges

\* C16: from the return of the stop function until teardown both edges exist
\* and no track is stopped; after teardown every track is stopped and both
\* edges are removed, and setting the finished flag is the last clean-up step.
C16_WiringMirrorsTeardown ==
  \A s \in Sessions :
    /\ (stopReturned[s] /\ teardownCount[s] = 0) =>
         /\ connections[s] = Edges
         /\ connectCalls[s] = 2
         /\ \A t \in Tracks : trackStops[s][t] = 0
         /\ finished[s] = "false"
         /\ cleanup[s] = <<>>
    /\ teardownCount[s] >= 1 =>
         /\ connections[s] = {}
         /\ \A t \in Tracks : trackStops[s][t] = 1
         /\ \A e \in Edges : disconnects[s][e] = 1
         /\ finished[s] = "true"
    /\ finished[s] = "true" <=> teardownCount[s] >= 1
    /\ cleanup[s] # <<>> =>
         /\ cleanup[s][Len(cleanup[s])] = "finished = true"
         /\ \A k \in 1..(Len(cleanup[s]) - 1) : cleanup[s][k] # "finished = true"
         /\ \E i, j, k \in 1..(Len(cleanup[s]) - 1) :
              /\ i < j /\ j < k
              /\ cleanup[s][i] = "track.stop"
              /\ cleanup[s][j] = "disconnect recorderToSink"
              /\ cleanup[s][k] = "disconnect sourceToRecorder"

\* one session wired and recording, another worklet session torn down
C16_Witness ==
  \E s, r \in Sessions :
    /\ stopReturned[s] /\ teardownCount[s] = 0 /\ onDataCalls[s] >= 1
    /\ ~useScriptProcessorNode[r] /\ teardownCount[r] = 1 /\ connections[r] = {}

\* C17: once a session's teardown has completed the caller's onData is not
\* invoked again for that session, whatever quanta or 'data' messages follow.
C17_NoDataAfterTeardown ==
  [][\A s \in Sessions :
       finished[s] = "true" =>
         /\ onDataCalls'[s] = onDataCalls[s]
         /\ received'[s] = received[s]]_vars

\* C18: a stop() call of one session, or its teardown, leaves every other
\* session's tracks, edges, stopped flag, isRecording control and finished flag
\* as they were.
C18_SessionsIndependent ==
  [][\A s, r \in Sessions :
       (/\ s # r
        /\ \/ stopCalls'[s] # stopCalls[s]
           \/ teardownCount'[s] # teardownCount[s])
       => /\ trackStops'[r] = trackStops[r]
          /\ connections'[r] = connections[r]
          /\ disconnects'[r] = disconnects[r]
          /\ stopped'[r] = stopped[r]
          /\ isRecording'[r] = isRecording[r]
          /\ finished'[r] = finished[r]
          /\ teardownCount'[r] = teardownCount[r]
          /\ cleanup'[r] = cleanup[r]]_vars

\* one fallback session was stopped and torn down while another fallback
\* session, never stopped, is still wired and has received a block since
C18_Witness ==
  \E s, r \in Sessions :
    /\ s # r
    /\ useScriptProcessorNode[s] /\ useScriptProcessorNode[r]
    /\ stopCalls[s] >= 1 /\ teardownCount[s] = 1
    /\ stopCalls[r] = 0 /\ ~stopped[r] /\ finished[r] = "false"
    /\ connections[r] = Edges /\ onDataCalls[r] >= 1
    /\ \A t \in Tracks : trackStops[r][t] = 0

\* C19: no handler of a session runs, so neither the onData adapter nor
\* onFinish, before captureAudio has wired source to recorder to sink and
\* initialised finished; onFinish never meets finished uninitialised.
C19_NoCallbackBeforeWiring ==
  \A s \in Sessions :
    /\ (finished[s] = "tdz" \/ pc[s] # "returned") =>
         /\ handlerRuns[s] = 0
         /\ onDataCalls[s] = 0
         /\ onFinishCalls[s] = 0
         /\ received[s] = <<>>
    /\ handlerRuns[s] >= 1 => connectCalls[s] = 2 /\ finished[s] # "tdz"
    /\ onFinishCalls[s] = 0 <=> teardownCount[s] = 0

\* a worklet node exists and its processor has already posted a message while
\* captureAudio has not yet wired the graph
C19_Witness ==
  \E s \in Sessions :
    /\ pc[s] = "awaitFactory" /\ nodeCreated[s] /\ port[s] # <<>>
    /\ finished[s] = "tdz" /\ connections[s] = {}

====
